---- MODULE Spec2Model ----
(***************************************************************************)
(* md2norg: convert_markdown_to_neorg (src/src/main.rs), the Markdown to   *)
(* Neorg text transformation, as a state machine.                          *)
(*                                                                         *)
(* Text is a sequence of characters, each character a one-character        *)
(* string.  A TLA+ string literal cannot hold the backquote U+0060, so     *)
(* that one character is written BQ.                                       *)
(***************************************************************************)
EXTENDS Integers, Sequences, FiniteSets, TLC

VARIABLES doc, input, content, result, pc, rule, pending

vars == <<doc, input, content, result, pc, rule, pending>>

\* The characters of a string literal.
Chars(str) == [i \in 1..Len(str) |-> SubSeq(str, i, i)]

\* The backquote character.
BQ == "BQ"

LF == "\n"

CR == "\r"

(***************************************************************************)
(* The regex crate's character classes, on ASCII.                          *)
(***************************************************************************)
\* \s and char::is_whitespace (less the vertical tab U+000B, which a TLA+
\* string literal cannot hold and no document here contains).
Whitespace == {" ", "\t", "\n", "\r", "\f"}

\* \w : letters, digits and the underscore.
WordChars ==
    {"a", "b", "c", "d", "e", "f", "g", "h", "i", "j", "k", "l", "m",
     "n", "o", "p", "q", "r", "s", "t", "u", "v", "w", "x", "y", "z",
     "A", "B", "C", "D", "E", "F", "G", "H", "I", "J", "K", "L", "M",
     "N", "O", "P", "Q", "R", "S", "T", "U", "V", "W", "X", "Y", "Z",
     "0", "1", "2", "3", "4", "5", "6", "7", "8", "9", "_"}

(***************************************************************************)
(* Regular expressions as sequences of elements.  A class is a set of      *)
(* characters, negated or not.                                             *)
(***************************************************************************)
\* One character of the set cs.
In(cs) == [t |-> "cls", neg |-> FALSE, set |-> cs]

\* One character outside the set cs: [^...].
NotIn(cs) == [t |-> "cls", neg |-> TRUE, set |-> cs]

\* A literal string.
Lit(str) == [i \in 1..Len(str) |-> In({SubSeq(str, i, i)})]

\* c* , c+ (greedy) and c*? (lazy) of a class c.
Star(c) == <<[t |-> "rep", neg |-> c.neg, set |-> c.set, min |-> 0, greedy |-> TRUE]>>

Plus(c) == <<[t |-> "rep", neg |-> c.neg, set |-> c.set, min |-> 1, greedy |-> TRUE]>>

LazyStar(c) == <<[t |-> "rep", neg |-> c.neg, set |-> c.set, min |-> 0, greedy |-> FALSE]>>

\* Capture group n around re.
Group(n, re) == <<[t |-> "open", n |-> n]>> \o re \o <<[t |-> "close", n |-> n]>>

\* (?: re )?
Optional(re) == <<[t |-> "opt", body |-> re]>>

\* ^ without and with the m flag, and $ without it.
StartOfText == <<[t |-> "bol", multi |-> FALSE]>>

StartOfLine == <<[t |-> "bol", multi |-> TRUE]>>

EndOfText == <<[t |-> "eol"]>>

\* \s, \S, \w, . and [\s\S]
Space == In(Whitespace)

NonSpace == NotIn(Whitespace)

Word == In(WordChars)

Dot == NotIn({LF})

AnyChar == NotIn({})

InClass(ch, e) == IF e.neg THEN ch \notin e.set ELSE ch \in e.set

(***************************************************************************)
(* Matching, leftmost-first as the regex crate does: at a position the     *)
(* alternatives are tried in the order of preference (greedy: longest      *)
(* repetition first; lazy: shortest first; an optional group: present      *)
(* first) and the first that lets the rest of the pattern match wins.      *)
(* A match is [end, caps]: end is the position after the match, caps[n]    *)
(* the <<first, after>> positions of group n (<<0, 0>>: no part in the       *)
(* match).  NoMatch has end = 0.                                           *)
(***************************************************************************)
NoMatch == [end |-> 0, caps |-> <<>>]

NoCaps == [n \in 1..3 |-> <<0, 0>>]

RECURSIVE RunLength(_, _, _)
RunLength(e, text, pos) ==
    IF pos <= Len(text) /\ InClass(text[pos], e)
    THEN 1 + RunLength(e, text, pos + 1)
    ELSE 0

RECURSIVE MatchHere(_, _, _, _)
RECURSIVE TryRepeat(_, _, _, _, _, _)

MatchHere(re, text, pos, caps) ==
    IF re = <<>> THEN [end |-> pos, caps |-> caps]
    ELSE LET e == Head(re)
             rest == Tail(re)
         IN CASE e.t = "cls" ->
                   IF pos <= Len(text) /\ InClass(text[pos], e)
                   THEN MatchHere(rest, text, pos + 1, caps)
                   ELSE NoMatch
              [] e.t = "rep" ->
                   LET most == RunLength(e, text, pos)
                   IN IF most < e.min THEN NoMatch
                      ELSE TryRepeat(e, rest, text, pos, caps,
                                     IF e.greedy THEN most ELSE e.min)
              [] e.t = "opt" ->
                   LET with == MatchHere(e.body \o rest, text, pos, caps)
                   IN IF with.end # 0 THEN with
                      ELSE MatchHere(rest, text, pos, caps)
              [] e.t = "open" ->
                   MatchHere(rest, text, pos, [caps EXCEPT ![e.n] = <<pos, 0>>])
              [] e.t = "close" ->
                   MatchHere(rest, text, pos, [caps EXCEPT ![e.n] = <<@[1], pos>>])
              [] e.t = "bol" ->
                   IF pos = 1 \/ (e.multi /\ text[pos - 1] = LF)
                   THEN MatchHere(rest, text, pos, caps)
                   ELSE NoMatch
              [] e.t = "eol" ->
                   IF pos = Len(text) + 1
                   THEN MatchHere(rest, text, pos, caps)
                   ELSE NoMatch

\* The repetition e taken k times, then the next length in preference order.
TryRepeat(e, rest, text, pos, caps, k) ==
    LET m == MatchHere(rest, text, pos + k, caps)
        most == RunLength(e, text, pos)
    IN IF m.end # 0 THEN m
       ELSE IF e.greedy
            THEN IF k = e.min THEN NoMatch
                 ELSE TryRepeat(e, rest, text, pos, caps, k - 1)
            ELSE IF k = most THEN NoMatch
                 ELSE TryRepeat(e, rest, text, pos, caps, k + 1)

\* The leftmost match starting at or after from: [start, end, caps],
\* start = 0 when there is none.
RECURSIVE Find(_, _, _)
Find(re, text, from) ==
    IF from > Len(text) + 1 THEN [start |-> 0, end |-> 0, caps |-> <<>>]
    ELSE LET m == MatchHere(re, text, from, NoCaps)
         IN IF m.end # 0 THEN [start |-> from, end |-> m.end, caps |-> m.caps]
            ELSE Find(re, text, from + 1)

\* Regex::captures(line): the leftmost match in the whole text.
Captures(re, text) == Find(re, text, 1)

\* &caps[n]; a group that took no part in the match expands to "".
CapText(text, caps, n) ==
    IF caps[n][2] = 0 THEN <<>> ELSE SubSeq(text, caps[n][1], caps[n][2] - 1)

\* A replacement template: literal characters and $n group references.
T(str) == [i \in 1..Len(str) |-> <<"lit", SubSeq(str, i, i)>>]

G(n) == << <<"grp", n>> >>

\* Captures::expand on a template.
RECURSIVE Expand(_, _, _)
Expand(tmpl, text, caps) ==
    IF tmpl = <<>> THEN <<>>
    ELSE (IF Head(tmpl)[1] = "grp"
          THEN CapText(text, caps, Head(tmpl)[2])
          ELSE <<Head(tmpl)[2]>>) \o Expand(Tail(tmpl), text, caps)

\* Regex::replace_all(text, template): every non-overlapping match, left to
\* right, replaced; the text between the matches copied.  (No pattern of the
\* program matches the empty string, so a match always ends after its start.)
RECURSIVE ReplaceFrom(_, _, _, _)
ReplaceFrom(re, tmpl, text, from) ==
    LET m == Find(re, text, from)
    IN IF m.start = 0 THEN SubSeq(text, from, Len(text))
       ELSE SubSeq(text, from, m.start - 1) \o Expand(tmpl, text, m.caps)
            \o ReplaceFrom(re, tmpl, text, m.end)

ReplaceAll(re, tmpl, text) == ReplaceFrom(re, tmpl, text, 1)

(***************************************************************************)
(* The patterns of convert_markdown_to_neorg.                              *)
(***************************************************************************)
\* r#"!\[([^\]]*)\]\(([^)]+)\s+"([^"]+)"\)"#
image_title_regex ==
    Lit("![") \o Group(1, Star(NotIn({"]"}))) \o Lit("](")
    \o Group(2, Plus(NotIn({")"}))) \o Plus(Space)
    \o Lit("\"") \o Group(3, Plus(NotIn({"\""}))) \o Lit("\")")

\* r"!\[([^\]]*)\]\(([^)]+)\)"
image_regex ==
    Lit("![") \o Group(1, Star(NotIn({"]"}))) \o Lit("](")
    \o Group(2, Plus(NotIn({")"}))) \o Lit(")")

\* r"!\[([^\]]*)\]\[([^\]]*)\]"
image_ref_regex ==
    Lit("![") \o Group(1, Star(NotIn({"]"}))) \o Lit("][")
    \o Group(2, Star(NotIn({"]"}))) \o Lit("]")

\* r"\[([^\]]+)\]\(([^)]+)\)"
link_regex ==
    Lit("[") \o Group(1, Plus(NotIn({"]"}))) \o Lit("](")
    \o Group(2, Plus(NotIn({")"}))) \o Lit(")")

\* r"\[([^\]]+)\]\[([^\]]*)\]"
link_ref_regex ==
    Lit("[") \o Group(1, Plus(NotIn({"]"}))) \o Lit("][")
    \o Group(2, Star(NotIn({"]"}))) \o Lit("]")

\* r"\[\[([^\]]+)\]\]"
obsidian_regex ==
    Lit("[[") \o Group(1, Plus(NotIn({"]"}))) \o Lit("]]")

\* r#"(?m)^\[([^\]]+)\]:\s*(\S+)(?:\s+"([^"]+)")?"#
ref_definition_regex ==
    StartOfLine \o Lit("[") \o Group(1, Plus(NotIn({"]"}))) \o Lit("]:")
    \o Star(Space) \o Group(2, Plus(NonSpace))
    \o Optional(Plus(Space) \o Lit("\"") \o Group(3, Plus(NotIn({"\""})))
                \o Lit("\""))

\* r"<(https?://[^>]+)>"
autolink_regex ==
    Lit("<")
    \o Group(1, Lit("http") \o Optional(Lit("s")) \o Lit("://")
                \o Plus(NotIn({">"})))
    \o Lit(">")

\* "{image:$2}[$1]"
image_template == T("{image:") \o G(2) \o T("}[") \o G(1) \o T("]")

\* "{$2}[$1]"
link_template == T("{") \o G(2) \o T("}[") \o G(1) \o T("]")

\* link_conversions with the two link rules moved ahead of the image rules.
link_conversions_links_first ==
    << [pattern |-> link_regex, replacement |-> link_template],
       [pattern |-> link_ref_regex, replacement |-> link_template],
       [pattern |-> image_title_regex, replacement |-> image_template],
       [pattern |-> image_regex, replacement |-> image_template],
       [pattern |-> image_ref_regex, replacement |-> image_template],
       [pattern |-> obsidian_regex,
        replacement |-> T("{:") \o G(1) \o T(".norg:}")],
       [pattern |-> ref_definition_regex,
        replacement |-> T("@") \o G(1) \o T(" ") \o G(2) \o T(" ") \o G(3)],
       [pattern |-> autolink_regex,
        replacement |-> T("{") \o G(1) \o T("}[") \o G(1) \o T("]")] >>

\* The array link_conversions, in its order.
link_conversions ==
    << [pattern |-> image_title_regex, replacement |-> image_template],
       [pattern |-> image_regex, replacement |-> image_template],
       [pattern |-> image_ref_regex, replacement |-> image_template],
       [pattern |-> link_regex, replacement |-> link_template],
       [pattern |-> link_ref_regex, replacement |-> link_template],
       [pattern |-> obsidian_regex,
        replacement |-> T("{:") \o G(1) \o T(".norg:}")],
       [pattern |-> ref_definition_regex,
        replacement |-> T("@") \o G(1) \o T(" ") \o G(2) \o T(" ") \o G(3)],
       [pattern |-> autolink_regex,
        replacement |-> T("{") \o G(1) \o T("}[") \o G(1) \o T("]")] >>

\* The heading pattern with \s in place of \s+.
heading_regex_single_space ==
    StartOfText \o Group(1, Plus(In({"#"}))) \o <<Space>>
    \o Group(2, Star(Dot)) \o EndOfText

\* r"^(#+)\s+(.*)$"
heading_regex ==
    StartOfText \o Group(1, Plus(In({"#"}))) \o Plus(Space)
    \o Group(2, Star(Dot)) \o EndOfText

\* r"^(\s*)- \[ \] (.*)$"
todo_regex ==
    StartOfText \o Group(1, Star(Space)) \o Lit("- [ ] ")
    \o Group(2, Star(Dot)) \o EndOfText

\* r"^(\s*)- \[x\] (.*)$"
done_regex ==
    StartOfText \o Group(1, Star(Space)) \o Lit("- [x] ")
    \o Group(2, Star(Dot)) \o EndOfText

\* r"^(\s*)[-*+]\s+(.*)$"
list_regex ==
    StartOfText \o Group(1, Star(Space)) \o <<In({"-", "*", "+"})>>
    \o Plus(Space) \o Group(2, Star(Dot)) \o EndOfText

\* The code block pattern with a greedy payload, [\s\S]* .
code_block_regex_greedy ==
    <<In({BQ}), In({BQ}), In({BQ})>> \o Group(1, Star(Word)) \o Lit("\n")
    \o Group(2, Star(AnyChar)) \o <<In({BQ}), In({BQ}), In({BQ})>>

\* r"```(\w*)\n([\s\S]*?)```"
code_block_regex ==
    <<In({BQ}), In({BQ}), In({BQ})>> \o Group(1, Star(Word)) \o Lit("\n")
    \o Group(2, LazyStar(AnyChar)) \o <<In({BQ}), In({BQ}), In({BQ})>>

(***************************************************************************)
(* str::lines, str::trim_end and str::repeat.                              *)
(***************************************************************************)
\* The position of the first LF at or after from, 0 when there is none.
RECURSIVE NextLF(_, _)
NextLF(text, from) ==
    IF from > Len(text) THEN 0
    ELSE IF text[from] = LF THEN from
    ELSE NextLF(text, from + 1)

\* str::lines: the text split at each LF; a CR right before the LF belongs
\* to the line ending; the last line needs no line ending, and an empty
\* rest after the last LF is no line.
RECURSIVE LinesFrom(_, _)
LinesFrom(text, from) ==
    IF from > Len(text) THEN <<>>
    ELSE LET nl == NextLF(text, from)
         IN IF nl = 0 THEN <<SubSeq(text, from, Len(text))>>
            ELSE LET last == IF nl > from /\ text[nl - 1] = CR
                             THEN nl - 2 ELSE nl - 1
                 IN <<SubSeq(text, from, last)>> \o LinesFrom(text, nl + 1)

\* The lines with the blank ones left out.
NotBlank(line) == line # <<>>

Lines_skip_blank(text) == SelectSeq(LinesFrom(text, 1), NotBlank)

Lines(text) == LinesFrom(text, 1)

\* str::trim_end: the text without its trailing whitespace.
RECURSIVE TrimEnd(_)
TrimEnd(text) ==
    IF text # <<>> /\ text[Len(text)] \in Whitespace
    THEN TrimEnd(SubSeq(text, 1, Len(text) - 1))
    ELSE text

\* ch.repeat(n)
Repeat(ch, n) == [i \in 1..n |-> ch]

(***************************************************************************)
(* The body of the loop over content.lines(): what one line appends to     *)
(* result.                                                                 *)
(***************************************************************************)
\* format!("{} {}\n", "*".repeat(level), text)
HeadingLine(line, caps) ==
    Repeat("*", Len(CapText(line, caps, 1))) \o <<" ">>
    \o CapText(line, caps, 2) \o <<LF>>

\* format!("{}-- ( ) {}\n", indent, text)
TodoLine(line, caps) ==
    CapText(line, caps, 1) \o Chars("-- ( ) ") \o CapText(line, caps, 2)
    \o <<LF>>

\* format!("{}-- (x) {}\n", indent, text)
DoneLine(line, caps) ==
    CapText(line, caps, 1) \o Chars("-- (x) ") \o CapText(line, caps, 2)
    \o <<LF>>

\* format!("{}-- {}\n", indent, text)
ListLine(line, caps) ==
    CapText(line, caps, 1) \o Chars("-- ") \o CapText(line, caps, 2)
    \o <<LF>>

\* The plain branch without its push('\n').
PlainLine_unterminated(line) == line

\* result.push_str(line); result.push('\n')
PlainLine(line) == line \o <<LF>>

\* The branches with the list rule tried before the two task rules.
ConvertLine_list_first(line) ==
    LET heading == Captures(heading_regex, line)
        todo == Captures(todo_regex, line)
        checked == Captures(done_regex, line)
        item == Captures(list_regex, line)
    IN IF heading.start # 0 THEN HeadingLine(line, heading.caps)
       ELSE IF item.start # 0 THEN ListLine(line, item.caps)
       ELSE IF todo.start # 0 THEN TodoLine(line, todo.caps)
       ELSE IF checked.start # 0 THEN DoneLine(line, checked.caps)
       ELSE PlainLine(line)

\* The if / else if chain of the loop body.
ConvertLine(line) ==
    LET heading == Captures(heading_regex, line)
        todo == Captures(todo_regex, line)
        checked == Captures(done_regex, line)
        item == Captures(list_regex, line)
    IN IF heading.start # 0 THEN HeadingLine(line, heading.caps)
       ELSE IF todo.start # 0 THEN TodoLine(line, todo.caps)
       ELSE IF checked.start # 0 THEN DoneLine(line, checked.caps)
       ELSE IF item.start # 0 THEN ListLine(line, item.caps)
       ELSE PlainLine(line)

(***************************************************************************)
(* The code block closure and its replace_all.                             *)
(***************************************************************************)
\* format!("@code {}\n{}\n@end", language, code), code = caps[2].trim_end()
CodeBlock(text, caps) ==
    Chars("@code ") \o CapText(text, caps, 1) \o <<LF>>
    \o TrimEnd(CapText(text, caps, 2)) \o <<LF>> \o Chars("@end")

RECURSIVE ReplaceCodeFrom(_, _)
ReplaceCodeFrom(text, from) ==
    LET m == Find(code_block_regex, text, from)
    IN IF m.start = 0 THEN SubSeq(text, from, Len(text))
       ELSE SubSeq(text, from, m.start - 1) \o CodeBlock(text, m.caps)
            \o ReplaceCodeFrom(text, m.end)

ConvertCodeBlocks(text) == ReplaceCodeFrom(text, 1)

(***************************************************************************)
(* The documents convert_markdown_to_neorg is run on.  A document is       *)
(* [kind, p, text]: text is the content: &str handed to the function, kind *)
(* and p (the parts the text is made of) say how it was put together.      *)
(***************************************************************************)
MaxTokens == 3

MaxText == 2

MaxIndent == 2

MaxLevel == 7

\* The sequences over S of length at most n, and those that are not empty.
SeqsUpTo(S, n) == UNION {[1..k -> S] : k \in 0..n}

NonEmpty(S, n) == SeqsUpTo(S, n) \ {<<>>}

RECURSIVE Flatten(_)
Flatten(parts) ==
    IF parts = <<>> THEN <<>> ELSE Head(parts) \o Flatten(Tail(parts))

Doc(kind, parts, text) == [kind |-> kind, p |-> parts, text |-> text]

Fence == <<BQ, BQ, BQ>>

\* Free text: any run of Markdown fragments.
Tokens ==
    {Chars("a"), Chars(" "), <<LF>>, <<CR>>, Chars("#"), Chars("-"),
     Chars("!"), Chars("[a"), Chars("](u)"), Chars("[a]:"), Fence}

TokenDocs == {Doc("tokens", ts, Flatten(ts)) : ts \in SeqsUpTo(Tokens, MaxTokens)}

\* Link and image spans, each alone on its line.
Alts == SeqsUpTo({"a", " ", "#"}, MaxText)

Texts == NonEmpty({"a", " ", "#"}, MaxText)

Urls == NonEmpty({"u", ".", "/"}, MaxText)

Refs == SeqsUpTo({"r"}, MaxText)

Titles == {Chars("t"), Chars("t t")}

Schemes == {Chars("http"), Chars("https")}

LinkDocs ==
    {Doc("image", <<a, u>>, Chars("![") \o a \o Chars("](") \o u \o Chars(")")) :
        a \in Alts, u \in Urls}
    \cup {Doc("image_title", <<a, u, t>>,
              Chars("![") \o a \o Chars("](") \o u \o Chars(" \"") \o t
              \o Chars("\")")) :
        a \in Alts, u \in Urls, t \in Titles}
    \cup {Doc("image_ref", <<a, r>>,
              Chars("![") \o a \o Chars("][") \o r \o Chars("]")) :
        a \in Alts, r \in Refs}
    \cup {Doc("link", <<x, u>>, Chars("[") \o x \o Chars("](") \o u \o Chars(")")) :
        x \in Texts, u \in Urls}
    \cup {Doc("link_ref", <<x, r>>,
              Chars("[") \o x \o Chars("][") \o r \o Chars("]")) :
        x \in Texts, r \in Refs}
    \cup {Doc("obsidian", <<x>>, Chars("[[") \o x \o Chars("]]")) : x \in Texts}
    \cup {Doc("autolink", <<h, u>>, Chars("<") \o h \o Chars("://") \o u \o Chars(">")) :
        h \in Schemes, u \in Urls}

\* Reference definitions, without and with a title.
RefIds == NonEmpty({"r", "-"}, MaxText)

RefDocs ==
    {Doc("ref_def", <<r, u>>, Chars("[") \o r \o Chars("]: ") \o u) :
        r \in RefIds, u \in Urls}
    \cup {Doc("ref_def_title", <<r, u, t>>,
              Chars("[") \o r \o Chars("]: ") \o u \o Chars(" \"") \o t
              \o Chars("\"")) :
        r \in RefIds, u \in Urls, t \in Titles}

\* Headings: hashes, whitespace, and a text that does not start with
\* whitespace.
Gaps == {Chars(" "), Chars("  "), Chars("\t")}

StartsWithSpace(text) == text # <<>> /\ text[1] \in Whitespace

HeadingTexts == {x \in SeqsUpTo({"a", " ", "#"}, MaxText) : ~StartsWithSpace(x)}

HeadingDocs ==
    {Doc("heading", <<Repeat("#", n), g, x>>, Repeat("#", n) \o g \o x) :
        n \in 1..MaxLevel, g \in Gaps, x \in HeadingTexts}

\* Task and list lines.
Indents == SeqsUpTo({" ", "\t"}, MaxIndent)

ItemTexts == SeqsUpTo({"a", " ", "-"}, MaxText)

\* What follows the whitespace after a list marker: a text that does not
\* start with whitespace, or a bracket that is no task box.
ListTexts ==
    {x \in ItemTexts : ~StartsWithSpace(x)}
    \cup {Chars("[X] X"), Chars("[ ]"), Chars("[x]")}

Markers == {Chars("-"), Chars("*"), Chars("+")}

ListDocs ==
    {Doc("todo", <<i, x>>, i \o Chars("- [ ] ") \o x) :
        i \in Indents, x \in ItemTexts}
    \cup {Doc("checked", <<i, x>>, i \o Chars("- [x] ") \o x) :
        i \in Indents, x \in ItemTexts}
    \cup {Doc("item", <<i, m, g, x>>, i \o m \o g \o x) :
        i \in Indents, m \in Markers, g \in Gaps, x \in ListTexts}
    \cup {Doc("item", <<i, m, <<" ">>, x>>, i \o m \o <<" ">> \o x) :
        i \in Indents, m \in {Chars("*"), Chars("+")},
        x \in {Chars("[ ] a"), Chars("[x] a")}}

\* Fenced blocks: a tag, then a payload of leading whitespace, a core that
\* ends in a letter (or nothing) and trailing whitespace, then the closing
\* fence, alone or followed by more text: a third fence, which opens no
\* block, or a second block.
Langs == SeqsUpTo({"r"}, MaxText)

Leads == SeqsUpTo({" ", LF}, 1)

Cores == {<<>>} \cup {x \o <<"b">> : x \in SeqsUpTo({"b", " "}, MaxText - 1)}

Trails == SeqsUpTo({" ", LF}, MaxText)

\* What follows the closing fence, and what is to become of it.
AfterFence ==
    {<< <<>>, <<>> >>,
     << <<LF, "b", LF>> \o Fence, <<LF, "b", LF>> \o Fence >>,
     << <<LF>> \o Fence \o <<LF, "b", LF>> \o Fence, Chars("\n@code \nb\n@end") >>}

FenceDocs ==
    {Doc("fence", <<l, w, c, t, s[2]>>,
         Fence \o l \o <<LF>> \o w \o c \o t \o <<LF>> \o Fence \o s[1]) :
        l \in Langs, w \in Leads, c \in Cores, t \in Trails, s \in AfterFence}

\* Fenced blocks whose payload lines are Markdown themselves.
MarkdownLines ==
    {Chars("# x"), Chars("- x"), Chars("[t](u)"), Chars("- [ ] x"),
     Chars("x")}

RECURSIVE JoinLines(_)
JoinLines(ls) ==
    IF ls = <<>> THEN <<>> ELSE Head(ls) \o <<LF>> \o JoinLines(Tail(ls))

NestedDocs ==
    {Doc("nested", <<l>> \o ls, Fence \o l \o <<LF>> \o JoinLines(ls) \o Fence) :
        l \in {<<>>, Chars("r")}, ls \in NonEmpty(MarkdownLines, 2)}

Docs ==
    TokenDocs \cup LinkDocs \cup RefDocs \cup HeadingDocs \cup ListDocs
    \cup FenceDocs \cup NestedDocs

(***************************************************************************)
(* convert_markdown_to_neorg, step by step.  pc is the pass under way:     *)
(* "links" (the loop over link_conversions, rule its index), "lines" (the  *)
(* loop over content.lines(), pending the lines still to come), "code"     *)
(* (the code block replace_all), "done" (the result returned).             *)
(***************************************************************************)
\* The passes with the code block pass moved ahead of the loop over the lines.
passes_code_first == <<"links", "code", "lines">>

\* The statements of the function body, in their order.
passes == <<"links", "lines", "code">>

\* The pass after pass p.
After(p) ==
    LET i == CHOOSE j \in 1..Len(passes) : passes[j] = p
    IN IF i = Len(passes) THEN "done" ELSE passes[i + 1]

\* The iterator content.lines() as the loop over it starts.
Iterator(p, text) == IF p = "lines" THEN Lines(text) ELSE <<>>

Init ==
    \E d \in Docs :
        /\ doc = d
        /\ input = d.text
        /\ content = d.text
        /\ result = <<>>
        /\ pc = passes[1]
        /\ rule = 1
        /\ pending = Iterator(passes[1], d.text)

\* One turn of the loop over link_conversions.
ApplyLinkConversion ==
    /\ pc = "links"
    /\ content' = ReplaceAll(link_conversions[rule].pattern,
                             link_conversions[rule].replacement, content)
    /\ IF rule < Len(link_conversions)
       THEN /\ rule' = rule + 1
            /\ UNCHANGED <<pc, pending>>
       ELSE /\ pc' = After("links")
            /\ pending' = Iterator(After("links"), content')
            /\ UNCHANGED rule
    /\ UNCHANGED <<doc, input, result>>

\* One turn of the loop over content.lines().
ConvertNextLine ==
    /\ pc = "lines"
    /\ pending # <<>>
    /\ result' = result \o ConvertLine(Head(pending))
    /\ pending' = Tail(pending)
    /\ UNCHANGED <<doc, input, content, pc, rule>>

\* The loop over content.lines() ends.
EndOfLines ==
    /\ pc = "lines"
    /\ pending = <<>>
    /\ pc' = After("lines")
    /\ UNCHANGED <<doc, input, content, result, rule, pending>>

\* code_block_regex.replace_all(&result, ...), and the return.
ReplaceCodeBlocks ==
    /\ pc = "code"
    /\ result' = ConvertCodeBlocks(result)
    /\ pc' = After("code")
    /\ pending' = Iterator(After("code"), content)
    /\ UNCHANGED <<doc, input, content, rule>>

Next == ApplyLinkConversion \/ ConvertNextLine \/ EndOfLines \/ ReplaceCodeBlocks

Spec == Init /\ [][Next]_vars

(***************************************************************************)
(* Properties.                                                             *)
(***************************************************************************)
Last(text) == text[Len(text)]

\* The number of line breaks in a text.
NumLF(text) == Cardinality({i \in DOMAIN text : text[i] = LF})

\* The matches replace_all finds in a text, as <<first, after>> positions.
RECURSIVE MatchesFrom(_, _, _)
MatchesFrom(re, text, from) ==
    LET m == Find(re, text, from)
    IN IF m.start = 0 THEN {}
       ELSE {<<m.start, m.end>>} \cup MatchesFrom(re, text, m.end)

\* The Neorg spans the link rules are to produce.
ImageSpan(url, alt) == Chars("{image:") \o url \o Chars("}[") \o alt \o Chars("]")

LinkSpan(url, text) == Chars("{") \o url \o Chars("}[") \o text \o Chars("]")

\* C1: a line holding only an image span, with or without a title or by
\* reference, becomes {image:url}[alt] and not the plain link {url}[alt];
\* [text](url) and [text][ref] become {url}[text] and {ref}[text] (an
\* empty ref gives {}[text]); [[target]] becomes {:target.norg:} with its
\* spaces; <http(s)://...> becomes {url}[url].
C1_ImagesBeforeLinks ==
    pc = "done" =>
        /\ doc.kind \in {"image", "image_title", "image_ref"}
              => result = ImageSpan(doc.p[2], doc.p[1]) \o <<LF>>
        /\ doc.kind \in {"link", "link_ref"}
              => result = LinkSpan(doc.p[2], doc.p[1]) \o <<LF>>
        /\ doc.kind = "obsidian"
              => result = Chars("{:") \o doc.p[1] \o Chars(".norg:}") \o <<LF>>
        /\ doc.kind = "autolink"
              => LET url == doc.p[1] \o Chars("://") \o doc.p[2]
                 IN result = LinkSpan(url, url) \o <<LF>>

C1_Witness ==
    /\ pc = "done"
    /\ doc.kind = "image"
    /\ input = Chars("![a](u)")
    /\ result = Chars("{image:u}[a]\n")

\* C2: a fenced block with tag l and a payload of leading whitespace, a
\* core and trailing whitespace becomes "@code ", l, a line break, the
\* payload without its trailing whitespace (leading whitespace kept), a
\* line break and "@end"; the block ends at the first closing fence, and
\* what follows it is left as it is.
C2_FencedBlock ==
    pc = "done" /\ doc.kind = "fence" =>
        LET payload == IF doc.p[3] = <<>> THEN <<>> ELSE doc.p[2] \o doc.p[3]
        IN result = Chars("@code ") \o doc.p[1] \o <<LF>> \o payload
                    \o <<LF>> \o Chars("@end") \o doc.p[5] \o <<LF>>

C2_Witness ==
    /\ pc = "done"
    /\ doc.kind = "fence"
    /\ input = Fence \o Chars("r\nb\n") \o Fence
    /\ result = Chars("@code r\nb\n@end\n")

\* C3: indent "- [ ] " T becomes indent "-- ( ) " T, indent "- [x] " T
\* becomes indent "-- (x) " T, and every other line of indent, one of
\* - * +, whitespace and T becomes indent "-- " T (so "- [X] X" becomes
\* "-- [X] X"); the indent is kept as it is.
C3_ListLines ==
    pc = "done" =>
        /\ doc.kind = "todo"
              => result = doc.p[1] \o Chars("-- ( ) ") \o doc.p[2] \o <<LF>>
        /\ doc.kind = "checked"
              => result = doc.p[1] \o Chars("-- (x) ") \o doc.p[2] \o <<LF>>
        /\ doc.kind = "item"
              => result = doc.p[1] \o Chars("-- ") \o doc.p[4] \o <<LF>>

C3_Witness ==
    /\ pc = "done"
    /\ doc.kind = "todo"
    /\ input = Chars("  - [ ] a")
    /\ result = Chars("  -- ( ) a\n")

\* C4: n hashes, whitespace and a text T become n stars, one space and T,
\* for every n >= 1.
C4_Headings ==
    pc = "done" /\ doc.kind = "heading" =>
        result = Repeat("*", Len(doc.p[1])) \o <<" ">> \o doc.p[3] \o <<LF>>

C4_Witness ==
    /\ pc = "done"
    /\ doc.kind = "heading"
    /\ input = Chars("####### a")
    /\ result = Chars("******* a\n")

\* C5: "[id]: destination" with a quoted title becomes
\* "@id destination title"; without a title the line is "@id destination"
\* and carries no trailing whitespace.
C5_RefDefinition ==
    pc = "done" =>
        /\ doc.kind = "ref_def_title"
              => result = Chars("@") \o doc.p[1] \o <<" ">> \o doc.p[2]
                          \o <<" ">> \o doc.p[3] \o <<LF>>
        /\ doc.kind = "ref_def"
              => result = Chars("@") \o doc.p[1] \o <<" ">> \o doc.p[2] \o <<LF>>

\* Short of the return some step of the function is always at hand, and
\* while the lines are converted the result holds one line break for each
\* line taken so far.
EveryLineTerminated ==
    /\ pc \in {"links", "lines", "code", "done"}
    /\ pc = "links" => rule \in 1..Len(link_conversions)
    /\ pc = "lines" => NumLF(result) = Len(Lines(content)) - Len(pending)

\* C6, as stated: the conversion is total, every line gets exactly one
\* line break, and the output always ends with a line break.
C6_AlwaysTerminated ==
    /\ EveryLineTerminated
    /\ pc = "done" => result # <<>> /\ Last(result) = LF

\* C6, amended: the conversion is total, every line gets exactly one line
\* break, and the output of a text that is not empty ends with a line
\* break; the output of the empty text is empty.
C6_TerminatedUnlessEmpty ==
    /\ EveryLineTerminated
    /\ pc = "done" =>
          IF input = <<>> THEN result = <<>>
          ELSE result # <<>> /\ Last(result) = LF

C6_Witness ==
    /\ pc = "done"
    /\ input = Chars("a\na")
    /\ result = Chars("a\na\n")

\* A text without Markdown syntax: no link rule and no fenced block
\* matches in it, and none of its lines is a heading, a task or a list item.
NoSyntax(text) ==
    /\ \A k \in 1..Len(link_conversions) :
          Find(link_conversions[k].pattern, text, 1).start = 0
    /\ Find(code_block_regex, text, 1).start = 0
    /\ \A i \in 1..Len(Lines(text)) :
          \A re \in {heading_regex, todo_regex, done_regex, list_regex} :
              Captures(re, Lines(text)[i]).start = 0

\* The text with a line break appended when it does not end with one.
Terminated(text) ==
    IF text # <<>> /\ Last(text) = LF THEN text ELSE text \o <<LF>>

C8_LineCount ==
    /\ pc = "code" => Len(Lines(result)) = Len(Lines(input))
    /\ pc = "done" => Len(Lines(result)) <= Len(Lines(input))

\* C9: every match of a link rule other than the reference definition lies
\* within one line, a reference definition starts at the start of a line,
\* and the link rules leave the line breaks of the text as they are.
C9_SpansWithinLine ==
    /\ pc = "links" =>
          \A m \in MatchesFrom(link_conversions[rule].pattern, content, 1) :
              IF rule = 7
              THEN m[1] = 1 \/ content[m[1] - 1] = LF
              ELSE \A i \in m[1]..(m[2] - 1) : content[i] # LF
    /\ pc \in {"links", "lines"} => NumLF(content) = NumLF(input)

\* What the first two passes make of a line of Markdown.
Rewritten(line) ==
    CASE line = Chars("# x") -> Chars("* x")
      [] line = Chars("- x") -> Chars("-- x")
      [] line = Chars("[t](u)") -> Chars("{u}[t]")
      [] line = Chars("- [ ] x") -> Chars("-- ( ) x")
      [] line = Chars("x") -> Chars("x")

\* C10: the lines inside a fenced block are rewritten by the link rules and
\* the line rules before the block is: the payload between @code and @end
\* is the rewritten lines, not the source lines.
C10_PayloadRewritten ==
    pc = "done" /\ doc.kind = "nested" =>
        result = Chars("@code ") \o doc.p[1] \o <<LF>>
                 \o JoinLines([i \in 1..(Len(doc.p) - 1) |-> Rewritten(doc.p[i + 1])])
                 \o Chars("@end\n")

C10_Witness ==
    /\ pc = "done"
    /\ doc.kind = "nested"
    /\ input = Fence \o Chars("\n# x\n") \o Fence
    /\ result = Chars("@code \n* x\n@end\n")

====
